---- MODULE Spec2Model ----
(***************************************************************************)
(* The aggregation-and-chunked-publishing pipeline of the static store:    *)
(*   build-store.sh   validate, normalise and aggregate the app bundles,   *)
(*                    assemble dist-publish/                               *)
(*   make-publish.sh, Makefile (two versions)                              *)
(*                    stage dist-publish/, split the files over 95 MB,     *)
(*                    verify, commit and push the publish branch           *)
(*                                                                         *)
(* File sizes are counted in MiB, the unit of the scripts' own constants   *)
(* (95 * 1024 * 1024 and split --bytes=90M).  The bytes of a file are a    *)
(* sequence of extents [id, lo, hi): the bytes lo..hi-1 of the input file  *)
(* id.  Two files have the same bytes iff their extent lists are equal,    *)
(* and sha256 is taken to be injective on them.                            *)
(***************************************************************************)
EXTENDS Integers, Sequences, FiniteSets, TLC

VARIABLES
    \* ---- make-publish.sh / Makefile: the publish run
    impl,         \* which publisher runs: "make-publish.sh", "Makefile", "part_000"
    DRY_RUN,      \* make-publish.sh --dry-run
    ppc,          \* position of the publish run
    output,       \* dist-publish/ and update/ of the main working tree
    STAGING,      \* the staging directory's tree
    stagingDir,   \* whether the staging directory exists
    found,        \* paths find has printed so far
    queue,        \* paths printed by find and not yet read by the loop
    SPLIT_COUNT,  \* files split so far
    splits,       \* what each pass of the split loop read and wrote
    worktree,     \* the working tree of the repository, .git excluded
    walked,       \* the files the verifier has looked at
    OVERSIZED,    \* the verifier's count
    publishHead,  \* the tree of the publish branch's last local commit
    remote,       \* the tree of the publish branch on the remote
    pushes,       \* pushes of the publish branch made by this run
    mainTree,     \* main's working tree: "dirty", "clean" or "committed"
    mainPushes,   \* pushes of the main branch made by this run
    branch,       \* the branch checked out
    pexit,        \* exit status of the publish run (-1: running)
    \* ---- build-store.sh: the build run
    mode,         \* "full", "aggregate" (--aggregate), "dry-run" (--dry-run)
    bundles,      \* the directories packages/*/*/*/ in glob order
    packagesDir,  \* packages/: "absent", "present", "created" (by this run)
    submodules,   \* the submodule checkouts: "current", "stale", "updated"
    bpc,          \* position of the build run
    scan,         \* index of the next directory to scan
    TOTAL, VALID, ERRORS,
    report,       \* the [FAIL] lines printed so far
    warnings,     \* the [WARN] lines printed so far
    APP_JSON_FILE,\* the JSON lines collected in the temp file
    srcApps,      \* src/apps.json
    distDir,      \* whether dist/ exists
    outIndex,     \* dist-publish/apps/index.json
    outDir,       \* dist-publish/: "absent", "old", "skeleton", "assembled", "collected"
    outPackages,  \* the names of the files in dist-publish/packages/
    outImages,    \* the files in dist-publish/images/: name and bytes
    outShots,     \* the files under dist-publish/screenshots/
    outUpdate,    \* dist-publish/update/manifest.json
    tarballSrc,   \* whether ../sandstorm holds a sandstorm-N.tar.xz
    clock,        \* what date prints during this run
    run,          \* 1 during the first build, 2 during a second one
    first,        \* what the first build left, once a second one has begun
    bexit,        \* exit status of the build run (-1: running)
    \* ---- sw.js: the service worker
    swCache,      \* the cache CACHE_NAME: the response stored for each URL
    swPending,    \* requests the worker has passed to fetch(), not yet settled
    swPuts,       \* cache.put calls waiting for caches.open to resolve
    swReplies,    \* what the worker answered each event with
    swPassed,     \* the events the worker left to the browser
    swCount       \* fetch events so far

pvars == <<impl, DRY_RUN, ppc, output, STAGING, stagingDir, found, queue,
           SPLIT_COUNT, splits, worktree, walked, OVERSIZED, publishHead, remote,
           pushes, mainTree, mainPushes,
           branch, pexit>>
bvars == <<mode, bundles, packagesDir, submodules, tarballSrc, clock, run, first,
           outPackages,
           outImages, outShots, outUpdate, bpc, scan, TOTAL, VALID, ERRORS, report, warnings,
           APP_JSON_FILE, srcApps, distDir, outIndex, outDir, bexit>>
wvars == <<swCache, swPending, swPuts, swReplies, swPassed, swCount>>
vars == <<pvars, bvars, wvars>>

Min(a, b) == IF a <= b THEN a ELSE b

(***************************************************************************)
(* Configuration                                                           *)
(***************************************************************************)
\* MAX_FILE_SIZE=$((95 * 1024 * 1024)), in MiB
MAX_FILE_SIZE == 95
\* split --bytes=90M / CHUNK_SIZE := 90M, in MiB
CHUNK_SIZE == 90
\* split --suffix-length=2: the suffixes 00..99
SUFFIX_LENGTH == 2

SuffixCount == 10 ^ SUFFIX_LENGTH

\* The largest number of chunks of a file the model draws.
MaxChunks == 3

(***************************************************************************)
(* Paths, files and trees                                                  *)
(*                                                                         *)
(* A path is a directory, a base name and the dot-suffixes appended to it: *)
(* update/sandstorm-0.tar.xz.part01 is                                     *)
(*   [dir |-> "update", base |-> "sandstorm-0.tar.xz",                     *)
(*    ext |-> << <<"part", 1>> >>].                                        *)
(* A suffix is <<text, n>>: <<"part", n>> is ".partNN" with the two digits *)
(* of n, every other suffix has n = 0.                                     *)
(***************************************************************************)
Part(n) == <<"part", n>>
PartsJson == <<"parts.json", 0>>
Partial == <<"partial", 0>>
UpdateSig == <<"update-sig", 0>>

Path(d, b, e) == [dir |-> d, base |-> b, ext |-> e]
WithSuffix(p, s) == [p EXCEPT !.ext = Append(@, s)]
basename(p) == [base |-> p.base, ext |-> p.ext]
NoName == [base |-> "", ext |-> <<>>]

NoDoc ==
    [kind |-> "none", originalFile |-> NoName, originalSha256 |-> <<>>,
     originalSize |-> 0, parts |-> <<>>, split |-> FALSE,
     partsManifest |-> NoName, rest |-> ""]

\* A file of `size` MiB holding the bytes of input `id`.
BytesFile(id, size) ==
    [size |-> size, data |-> <<[id |-> id, lo |-> 0, hi |-> size]>>, doc |-> NoDoc]

\* A JSON document the scripts write: far below one MiB, counted as 1.
JsonFile(id, doc) ==
    [size |-> 1, data |-> <<[id |-> id, lo |-> 0, hi |-> 1]>>, doc |-> doc]

EmptyTree == [q \in {} |-> BytesFile(NoName, 0)]
Write(tree, p, f) == [q \in DOMAIN tree \cup {p} |-> IF q = p THEN f ELSE tree[q]]
Remove(tree, p) == [q \in DOMAIN tree \ {p} |-> tree[q]]

sha256(f) == f.data
stat_size(f) == f.size

(***************************************************************************)
(* Bytes: slices and concatenation of extent lists                         *)
(***************************************************************************)
RECURSIVE Slice(_, _, _)
\* The bytes lo..hi-1 of `data`.
Slice(data, lo, hi) ==
    IF data = <<>> \/ hi <= lo THEN <<>>
    ELSE LET e == Head(data)
             len == e.hi - e.lo
         IN  IF lo >= len THEN Slice(Tail(data), lo - len, hi - len)
             ELSE <<[id |-> e.id, lo |-> e.lo + lo, hi |-> e.lo + Min(hi, len)]>>
                  \o Slice(Tail(data), 0, hi - len)

\* a followed by b; two extents that continue each other are one extent.
Join(a, b) ==
    IF a = <<>> THEN b
    ELSE IF b = <<>> THEN a
    ELSE LET x == a[Len(a)]
             y == b[1]
         IN  IF x.id = y.id /\ x.hi = y.lo
             THEN SubSeq(a, 1, Len(a) - 1) \o <<[x EXCEPT !.hi = y.hi]>> \o Tail(b)
             ELSE a \o b

RECURSIVE Concat(_)
\* cat of a sequence of byte strings.
Concat(datas) ==
    IF datas = <<>> THEN <<>> ELSE Join(Head(datas), Concat(Tail(datas)))

(***************************************************************************)
(* split --bytes=C --numeric-suffixes=0 --suffix-length=2 FILE FILE.part   *)
(***************************************************************************)
\* A split whose last chunk is cut to a whole multiple of the chunk size.
ChunksFrom_BugShort(f, C, off) ==
    LET n == IF off >= f.size THEN 0 ELSE (f.size - off) \div C
    IN  [k \in 1..n |->
            LET lo == off + (k - 1) * C
            IN  [size |-> C, data |-> Slice(f.data, lo, lo + C), doc |-> NoDoc]]

\* The chunks of f from byte offset `off` on: C bytes each, the last one the
\* rest; chunk k begins at off + (k - 1) * C.
ChunksFrom(f, C, off) ==
    LET n == IF off >= f.size THEN 0 ELSE (f.size - off + C - 1) \div C
    IN  [k \in 1..n |->
            LET lo == off + (k - 1) * C
                end == Min(lo + C, f.size)
            IN  [size |-> end - lo, data |-> Slice(f.data, lo, end), doc |-> NoDoc]]

\* The output files split writes: at most 10^SUFFIX_LENGTH of them.
split_chunks(f) ==
    LET all == ChunksFrom(f, CHUNK_SIZE, 0)
    IN  SubSeq(all, 1, Min(Len(all), SuffixCount))

split_fails_BugSilent(f) == FALSE

\* split fails with "output file suffixes exhausted" when it needs one more name.
split_fails(f) == Len(ChunksFrom(f, CHUNK_SIZE, 0)) > SuffixCount

PartPath(p, n) == WithSuffix(p, Part(n))

WriteChunks(tree, p, chunks) ==
    LET new == {PartPath(p, k - 1) : k \in 1..Len(chunks)}
    IN  [q \in DOMAIN tree \cup new |->
            IF q \in new THEN chunks[q.ext[Len(q.ext)][2] + 1] ELSE tree[q]]

(***************************************************************************)
(* The glob "${bigfile}".part*                                             *)
(***************************************************************************)
\* Whether the text of suffix s begins with "part".
StartsWithPart(s) == s[1] \in {"part", "parts.json", "partial"}

IsPrefix(a, b) == Len(a) <= Len(b) /\ SubSeq(b, 1, Len(a)) = a

\* The paths "${bigfile}".part* matches: p followed by ".part" and anything.
GlobParts(tree, p) ==
    {q \in DOMAIN tree :
        /\ q.dir = p.dir /\ q.base = p.base
        /\ Len(q.ext) > Len(p.ext) /\ IsPrefix(p.ext, q.ext)
        /\ StartsWithPart(q.ext[Len(p.ext) + 1])}

\* The place of a suffix in the collation order of file names: the digits of
\* .partNN sort before the letters of .partial, which sort before .parts.json.
SuffixRank(s) ==
    IF s[1] = "part" THEN s[2]
    ELSE IF s = Partial THEN SuffixCount
    ELSE IF s = PartsJson THEN SuffixCount + 1
    ELSE SuffixCount + 2

RECURSIVE ExtLess(_, _)
ExtLess(a, b) ==
    IF a = <<>> THEN b # <<>>
    ELSE IF b = <<>> THEN FALSE
    ELSE IF Head(a) = Head(b) THEN ExtLess(Tail(a), Tail(b))
    ELSE SuffixRank(Head(a)) < SuffixRank(Head(b))

\* A glob's matches in the order the shell lists them (paths of one directory
\* and one base name): the k-th is the one with k - 1 matches before it.
SortPaths(S) ==
    LET Before(q) == Cardinality({r \in S : ExtLess(r.ext, q.ext)})
        place == [q \in S |-> Before(q) + 1]
    IN  [k \in 1..Cardinality(S) |-> CHOOSE q \in S : place[q] = k]

\* The loop over the glob: one {file, sha256, size} entry per match.
PartsEntries(tree, p) ==
    LET ms == SortPaths(GlobParts(tree, p))
    IN  [k \in 1..Len(ms) |->
            [file |-> basename(ms[k]), sha256 |-> sha256(tree[ms[k]]),
             size |-> stat_size(tree[ms[k]])]]

PartsJsonPath(p) == WithSuffix(p, PartsJson)
ManifestPath(p) == Path(p.dir, "manifest.json", <<>>)

\* "$original_name" == sandstorm-*.tar.xz
IsSandstormTarball(p) == p.base = "sandstorm-0.tar.xz" /\ p.ext = <<>>

\* The .parts.json document written for bigfile p, whose bytes were f.
SplitManifest(tree, p, f) ==
    [NoDoc EXCEPT !.kind = "parts", !.originalFile = basename(p),
                  !.originalSha256 = sha256(f), !.originalSize = stat_size(f),
                  !.parts = PartsEntries(tree, p)]

\* The python patch of manifest.json: three keys set, the rest kept.
PatchManifest(tree, p) ==
    LET mf == ManifestPath(p)
        pf == PartsJsonPath(p)
    IN  Write(tree, mf,
              [tree[mf] EXCEPT !.doc = [@ EXCEPT !.split = TRUE,
                                                 !.partsManifest = basename(pf),
                                                 !.parts = tree[pf].doc.parts]])

RemoveOriginal_BugKeep(tree, p) == tree

\* rm -f "$bigfile"
RemoveOriginal(tree, p) == Remove(tree, p)

\* [[ -f "$manifest_dir/manifest.json" && "$original_name" == sandstorm-*.tar.xz ]]
WantsPatch(tree, p) == ManifestPath(p) \in DOMAIN tree /\ IsSandstormTarball(p)

\* Whether the python of the patch raises before it reads anything: in the
\* two makefiles the program text is  " \<newline>import json, os; ...  and so
\* begins with a blank (IndentationError); make-publish.sh starts it on a
\* line of its own.
PatchCrashes(i) == i \in {"Makefile", "part_000"}

\* One pass of the loop body over bigfile p (split has succeeded), as
\* implementation i runs it.
SplitOne(i, tree, p) ==
    LET f == tree[p]
        t1 == WriteChunks(tree, p, split_chunks(f))
        t2 == RemoveOriginal(t1, p)
        t3 == Write(t2, PartsJsonPath(p),
                    JsonFile(PartsJsonPath(p), SplitManifest(t2, p, f)))
    IN  IF WantsPatch(t3, p) /\ ~PatchCrashes(i)
        THEN PatchManifest(t3, p)
        ELSE t3

(***************************************************************************)
(* The publish run: make-publish.sh phase 4, Makefile publish,             *)
(* part_000 _stage _split _deploy                                          *)
(***************************************************************************)
Tarball == Path("update", "sandstorm-0.tar.xz", <<>>)
Asset == Path("assets", "bundle.bin", <<>>)
NoJekyll == Path("", ".nojekyll", <<>>)
GitAttributes == Path("", ".gitattributes", <<>>)

\* Sizes over the threshold: one over it, and around each whole number of chunks.
BigSizes ==
    {MAX_FILE_SIZE + 1, 230, MaxChunks * CHUNK_SIZE}
    \cup {k * CHUNK_SIZE : k \in 2..(MaxChunks - 1)}
    \cup {k * CHUNK_SIZE + 1 : k \in 2..(MaxChunks - 1)}

\* The files a staged tree may hold, each with the sizes it may have (0: absent).
Candidates ==
    {Tarball, Asset, ManifestPath(Tarball), ManifestPath(Asset),
     WithSuffix(Tarball, Part(2)),
     WithSuffix(Tarball, Partial), WithSuffix(Tarball, PartsJson),
     WithSuffix(Tarball, UpdateSig)}

\* The smallest size split cannot name the chunks of.
TooManyChunks == SuffixCount * CHUNK_SIZE + 1

SizeOptions(c) ==
    IF c = Tarball THEN {0, MAX_FILE_SIZE, TooManyChunks} \cup BigSizes
    ELSE IF c = Asset THEN {0, 1, MAX_FILE_SIZE, MAX_FILE_SIZE + 1}
    ELSE IF c = WithSuffix(Tarball, Part(2)) THEN {0, 5, MAX_FILE_SIZE + 1}
    ELSE IF c = WithSuffix(Tarball, Partial) THEN {0, 7}
    ELSE {0, 1}

\* update/manifest.json as build-store.sh writes it.
UpdateManifest == [NoDoc EXCEPT !.kind = "update", !.rest = "build 0"]

\* A .parts.json left by an earlier split.
StaleManifest ==
    [NoDoc EXCEPT !.kind = "parts", !.originalFile = basename(Tarball)]

\* A manifest.json of some other kind, beside the assets.
AssetManifest == [NoDoc EXCEPT !.kind = "assets", !.rest = "entries"]

InputFile(c, size) ==
    IF c = ManifestPath(Tarball) THEN JsonFile(c, UpdateManifest)
    ELSE IF c = ManifestPath(Asset) THEN JsonFile(c, AssetManifest)
    ELSE IF c = WithSuffix(Tarball, PartsJson) THEN JsonFile(c, StaleManifest)
    ELSE BytesFile(c, size)

\* The tree holding candidate c with size sz[c] for every sz[c] > 0.
TreeOf(sz) ==
    [q \in {c \in Candidates : sz[c] > 0} |-> InputFile(q, sz[q])]

InputTrees ==
    {TreeOf([c \in Candidates |->
               IF c = Tarball THEN a
               ELSE IF c = Asset THEN b
               ELSE IF c = WithSuffix(Tarball, Part(2)) THEN s2
               ELSE IF c = WithSuffix(Tarball, Partial) THEN sp
               ELSE IF c = WithSuffix(Tarball, PartsJson) THEN sj
               ELSE IF c = WithSuffix(Tarball, UpdateSig) THEN su
               ELSE IF c = ManifestPath(Asset) THEN ma
               ELSE m]) :
        a \in SizeOptions(Tarball), b \in SizeOptions(Asset),
        s2 \in SizeOptions(WithSuffix(Tarball, Part(2))),
        sp \in SizeOptions(WithSuffix(Tarball, Partial)),
        sj \in SizeOptions(WithSuffix(Tarball, PartsJson)),
        su \in SizeOptions(WithSuffix(Tarball, UpdateSig)),
        m \in SizeOptions(ManifestPath(Tarball)),
        ma \in SizeOptions(ManifestPath(Asset))}

\* The tree of the publish branch before the run: the last deployment, of
\* a dist-publish/ that held one small asset.
OldPublish ==
    Write(Write(EmptyTree, Asset, BytesFile(Asset, 1)), NoJekyll, BytesFile(NoJekyll, 0))

Impls == {"make-publish.sh", "Makefile", "part_000"}

\* No page is open: the service worker sees no event.
WorkerIdle ==
    /\ swCache = <<>> /\ swPending = {} /\ swPuts = {}
    /\ swReplies = {} /\ swPassed = {} /\ swCount = 0

\* No build has ended yet.
NoRun == [file |-> <<>>, index |-> [state |-> "absent", apps |-> <<>>], exit |-> -1]

\* build-store.sh is idle during a publish run.
BuildIdle ==
    /\ mode = "dry-run" /\ bundles = <<>> /\ bpc = "idle" /\ scan = 1
    /\ packagesDir = "present" /\ submodules = "current"
    /\ tarballSrc = FALSE /\ clock = 1 /\ run = 1 /\ first = NoRun
    /\ outPackages = {} /\ outImages = {} /\ outShots = {}
    /\ outUpdate = [state |-> "absent"]
    /\ TOTAL = 0 /\ VALID = 0 /\ ERRORS = 0
    /\ report = <<>> /\ warnings = <<>> /\ APP_JSON_FILE = <<>>
    /\ srcApps = [state |-> "absent", apps |-> <<>>]
    /\ outIndex = [state |-> "absent", apps |-> <<>>]
    /\ distDir = FALSE /\ outDir = "absent" /\ bexit = -1

\* src/Makefile copies dist-publish/ to the staging directory before it
\* commits and pushes main; make-publish.sh and part_000 push main first.
StagesFirst == impl = "Makefile"

PublishInit ==
    /\ impl \in Impls
    /\ DRY_RUN \in {b \in BOOLEAN : b => impl = "make-publish.sh"}
    /\ output \in InputTrees
    /\ ppc = (IF StagesFirst THEN "stage" ELSE "main")
    /\ STAGING = EmptyTree /\ stagingDir = FALSE
    /\ found = {} /\ queue = <<>> /\ SPLIT_COUNT = 0 /\ splits = <<>>
    /\ worktree = EmptyTree /\ walked = {} /\ OVERSIZED = 0
    /\ publishHead = OldPublish /\ remote = OldPublish /\ pushes = 0
    /\ mainTree \in {"dirty", "clean"} /\ mainPushes = 0
    /\ branch = "main" /\ pexit = -1
    /\ BuildIdle /\ WorkerIdle

\* if $DRY_RUN; then warn ...; else git push "$REMOTE" "$MAIN_BRANCH"; fi
PushesMain == ~DRY_RUN

PushesPublish_BugAlways == TRUE

\* if $DRY_RUN; then warn ...; else git push "$REMOTE" "$PUBLISH_BRANCH" --force; fi
PushesPublish == ~DRY_RUN

\* git checkout of another branch: git refuses to switch, and changes
\* nothing, while a file the current branch tracks is changed in the working
\* tree and not committed ("Your local changes ... would be overwritten").
CheckoutRefused(tree, head) ==
    \E p \in DOMAIN tree \cap DOMAIN head : tree[p] # head[p]

\* Whether the EXIT trap goes back to the branch the run started on:
\* cleanup in make-publish.sh and _cleanup in part_000; the trap of
\* src/Makefile removes the staging directory only.
TrapRestoresBranch == impl # "Makefile"

\* The branch checked out after an exit on the publish branch with working
\* tree `tree` over the commit `head`:
\* git checkout "$ORIGINAL_BRANCH" -- 2>/dev/null || true
BranchAfterTrap(tree, head) ==
    IF TrapRestoresBranch /\ ~CheckoutRefused(tree, head) THEN "main" ELSE "publish"

\* Phase 3 / _push-main: git add -A, commit when something is staged, and
\* push main unless --dry-run; a push that fails ends the run.
PushMain ==
    /\ ppc = "main"
    /\ mainTree' = (IF mainTree = "dirty" THEN "committed" ELSE mainTree)
    /\ \E pushed \in BOOLEAN :
         IF PushesMain /\ ~pushed
         THEN /\ ppc' = "exit" /\ pexit' = 1 /\ stagingDir' = FALSE
              /\ UNCHANGED mainPushes
         ELSE /\ mainPushes' = (IF PushesMain THEN mainPushes + 1 ELSE mainPushes)
              /\ ppc' = (IF StagesFirst THEN "split" ELSE "stage")
              /\ UNCHANGED <<stagingDir, pexit>>
    /\ UNCHANGED <<impl, DRY_RUN, output, STAGING, found, queue,
                   SPLIT_COUNT, splits, worktree, walked, OVERSIZED,
                   publishHead, remote, pushes, branch, bvars, wvars>>

\* 4a / _stage: cp -a dist-publish/. and update/. into the staging directory.
Stage ==
    /\ ppc = "stage"
    /\ STAGING' = output /\ stagingDir' = TRUE
    /\ ppc' = (IF StagesFirst THEN "main" ELSE "split")
    /\ UNCHANGED <<impl, DRY_RUN, mainTree, mainPushes,
                   output, found, queue, SPLIT_COUNT, splits,
                   worktree, walked, OVERSIZED, publishHead, remote, pushes,
                   branch, pexit, bvars, wvars>>

FindSelects_BugDouble(f) == stat_size(f) > 2 * MAX_FILE_SIZE

FindSelects_BugInclusive(f) == stat_size(f) >= MAX_FILE_SIZE

\* find -type f -size +${MAX_FILE_SIZE}c
FindSelects(f) == stat_size(f) > MAX_FILE_SIZE

\* find, running beside the loop, prints one more path: a file that is over
\* the threshold when find looks at it.
FindVisit ==
    /\ ppc = "split"
    /\ \E p \in DOMAIN STAGING :
        /\ p \notin found
        /\ FindSelects(STAGING[p])
        /\ found' = found \cup {p}
        /\ queue' = Append(queue, p)
    /\ UNCHANGED <<impl, DRY_RUN, mainTree, mainPushes,
                   ppc, output, STAGING, stagingDir, SPLIT_COUNT,
                   splits, worktree, walked, OVERSIZED, publishHead, remote,
                   pushes, branch, pexit, bvars, wvars>>

\* Whether the staging directory is left behind when the split step fails:
\* make-publish.sh and Makefile remove it in their EXIT trap, part_000's
\* _split recipe sets no trap.
StagingKeptOnSplitFailure == impl = "part_000"

\* One pass of "while read bigfile": sha256 and size of the original, split,
\* rm, the parts manifest, the patch of manifest.json.
SplitFile ==
    /\ ppc = "split" /\ queue # <<>>
    /\ LET p == Head(queue)
           f == STAGING[p]
       IN  /\ queue' = Tail(queue)
           /\ IF p \notin DOMAIN STAGING
              THEN /\ ppc' = "exit" /\ pexit' = 1
                   /\ stagingDir' = StagingKeptOnSplitFailure
                   /\ UNCHANGED <<STAGING, SPLIT_COUNT, splits>>
              ELSE IF split_fails(f)
              THEN /\ STAGING' = WriteChunks(STAGING, p, split_chunks(f))
                   /\ ppc' = "exit" /\ pexit' = 1
                   /\ stagingDir' = StagingKeptOnSplitFailure
                   /\ UNCHANGED <<SPLIT_COUNT, splits>>
              ELSE /\ STAGING' = SplitOne(impl, STAGING, p)
                   /\ splits' = Append(splits,
                          [path |-> p, original |-> f,
                           written |-> split_chunks(f)])
                   /\ IF WantsPatch(STAGING, p) /\ PatchCrashes(impl)
                      THEN /\ ppc' = "exit" /\ pexit' = 1
                           /\ stagingDir' = StagingKeptOnSplitFailure
                           /\ UNCHANGED SPLIT_COUNT
                      ELSE /\ SPLIT_COUNT' = SPLIT_COUNT + 1
                           /\ UNCHANGED <<ppc, pexit, stagingDir>>
    /\ UNCHANGED <<impl, DRY_RUN, mainTree, mainPushes,
                   output, found, worktree, walked, OVERSIZED,
                   publishHead, remote, pushes, branch, bvars, wvars>>

\* find has ended and the loop has read all it printed: every file over the
\* threshold has been printed.
SplitDone ==
    /\ ppc = "split" /\ queue = <<>>
    /\ \A p \in DOMAIN STAGING : FindSelects(STAGING[p]) => p \in found
    /\ ppc' = "deploy"
    /\ UNCHANGED <<impl, DRY_RUN, mainTree, mainPushes,
                   output, STAGING, stagingDir, found, queue,
                   SPLIT_COUNT, splits, worktree, walked, OVERSIZED,
                   publishHead, remote, pushes, branch, pexit, bvars, wvars>>

\* Whether the staging directory lies inside the working tree (.staging-tmp)
\* and so is removed by "find . -maxdepth 1 -not -name .git ... rm -rf".
StagingInsideRepo == impl = "part_000"

\* 4c / _deploy: checkout publish, remove the old content, cp -a the staged
\* tree, touch .nojekyll, rm -f .gitattributes.
Deploy ==
    /\ ppc = "deploy"
    /\ IF StagingInsideRepo
       THEN \* cp -a .staging-tmp/. . fails: the trap returns to main
            /\ STAGING' = EmptyTree /\ stagingDir' = FALSE
            /\ worktree' = EmptyTree
            /\ branch' = "main"
            /\ ppc' = "exit" /\ pexit' = 1
       ELSE /\ worktree' = Remove(Write(STAGING, NoJekyll, BytesFile(NoJekyll, 0)),
                                  GitAttributes)
            /\ branch' = "publish"
            /\ ppc' = "verify"
            /\ UNCHANGED <<STAGING, stagingDir, pexit>>
    /\ UNCHANGED <<impl, DRY_RUN, mainTree, mainPushes,
                   output, found, queue, SPLIT_COUNT, splits,
                   walked, OVERSIZED, publishHead, remote, pushes, bvars, wvars>>

VerifierWalk_BugTopLevel(tree) == {q \in DOMAIN tree : q.dir = ""}

\* find . -not -path './.git/*' -type f
VerifierWalk(tree) == DOMAIN tree

\* The verifier's loop: the files whose size is over the threshold.
OversizedFiles(tree) ==
    {q \in VerifierWalk(tree) : stat_size(tree[q]) > MAX_FILE_SIZE}

\* 4d: count the oversized files; abort when there is one.
Verify ==
    /\ ppc = "verify"
    /\ walked' = VerifierWalk(worktree)
    /\ OVERSIZED' = Cardinality(OversizedFiles(worktree))
    /\ IF OVERSIZED' > 0
       THEN /\ ppc' = "exit" /\ pexit' = 1
            /\ branch' = (IF CheckoutRefused(worktree, publishHead)
                          THEN "publish" ELSE "main")
            /\ stagingDir' = FALSE
       ELSE /\ ppc' = "commit"
            /\ UNCHANGED <<pexit, branch, stagingDir>>
    /\ UNCHANGED <<impl, DRY_RUN, mainTree, mainPushes,
                   output, STAGING, found, queue, SPLIT_COUNT,
                   splits, worktree, publishHead, remote, pushes, bvars, wvars>>

\* 4e: git add -A; commit and force-push when something changed.  A commit
\* or a push that fails ends the run through the EXIT trap.
Commit ==
    /\ ppc = "commit"
    /\ IF worktree = publishHead
       THEN /\ ppc' = "return"
            /\ UNCHANGED <<publishHead, remote, pushes, branch, stagingDir, pexit>>
       ELSE \E committed, pushed \in BOOLEAN :
              IF ~committed
              THEN /\ ppc' = "exit" /\ pexit' = 1 /\ stagingDir' = FALSE
                   /\ branch' = BranchAfterTrap(worktree, publishHead)
                   /\ UNCHANGED <<publishHead, remote, pushes>>
              ELSE /\ publishHead' = worktree
                   /\ IF PushesPublish /\ ~pushed
                      THEN /\ ppc' = "exit" /\ pexit' = 1 /\ stagingDir' = FALSE
                           /\ branch' = BranchAfterTrap(worktree, worktree)
                           /\ UNCHANGED <<remote, pushes>>
                      ELSE /\ remote' = (IF PushesPublish THEN worktree ELSE remote)
                           /\ pushes' = (IF PushesPublish THEN pushes + 1 ELSE pushes)
                           /\ ppc' = "return"
                           /\ UNCHANGED <<branch, stagingDir, pexit>>
    /\ UNCHANGED <<impl, DRY_RUN, mainTree, mainPushes,
                   output, STAGING, found, queue,
                   SPLIT_COUNT, splits, worktree, walked, OVERSIZED, bvars, wvars>>

\* 4f: git checkout main; the staging directory is removed.
Return ==
    /\ ppc = "return"
    /\ branch' = "main" /\ stagingDir' = FALSE
    /\ ppc' = "exit" /\ pexit' = 0
    /\ UNCHANGED <<impl, DRY_RUN, mainTree, mainPushes,
                   output, STAGING, found, queue, SPLIT_COUNT,
                   splits, worktree, walked, OVERSIZED, publishHead, remote,
                   pushes, bvars, wvars>>

PublishNext ==
    \/ PushMain
    \/ Stage
    \/ FindVisit
    \/ SplitFile
    \/ SplitDone
    \/ Deploy
    \/ Verify
    \/ Commit
    \/ Return

PublishSpec == PublishInit /\ [][PublishNext]_vars

(***************************************************************************)
(* build-store.sh: bundles and their metadata                              *)
(*                                                                         *)
(* A JSON value is known by its kind: "absent" (no such key), "empty" (the *)
(* string ""), "blank" (a string of white space), "text" (a string that is *)
(* not empty after trimming), "int" (an integer), "float" (a finite number *)
(* written with a fraction or an exponent), "nan" (the float NaN, which    *)
(* json.load accepts), "nonstr" (a boolean, list, object or null).         *)
(***************************************************************************)
REQUIRED_FIELDS ==
    <<"appId", "name", "version", "versionNumber", "packageId",
      "shortDescription", "categories", "isOpenSource", "webLink", "codeLink",
      "upstreamAuthor", "createdAt">>

RequiredSet == {REQUIRED_FIELDS[k] : k \in 1..Len(REQUIRED_FIELDS)}

Kinds == {"absent", "empty", "blank", "text", "int", "float", "nan", "nonstr"}

IsStr(v) == v \in {"empty", "blank", "text"}
\* isinstance(v, str) and v.strip() == ''
StripsToEmpty(v) == v \in {"empty", "blank"}

\* The largest app.spk that is served from the site itself, in MiB.
MAX_SPK_SIZE == 95

\* An entry of a screenshots/ directory: a regular file or a directory,
\* its name base.ext, with a leading dot when it is hidden.
ShotFile(b, e) == [base |-> b, ext |-> e, dot |-> FALSE, isFile |-> TRUE]

\* A directory packages/<developer>/<repo>/<app>/ with everything in place:
\* svgData and pngData are the bytes of icon.svg and icon.png, spkSize the
\* size of app.spk in MiB, pkg the text of packageId, srcPackageUrl the
\* packageUrl that metadata.json itself carries, app the text of appId,
\* metaShots the screenshots key of metadata.json ("absent" or "listed"),
\* and shots the entries of the directory screenshots/ (none: no directory).
GoodBundle ==
    [hidden |-> FALSE, hasMeta |-> TRUE, meta |-> "dict",
     fields |-> [f \in RequiredSet |->
                    IF f \in {"versionNumber", "createdAt"} THEN "int"
                    ELSE IF f \in {"categories", "isOpenSource"} THEN "nonstr"
                    ELSE "text"],
     author |-> [shape |-> "dict", name |-> "text"],
     svg |-> TRUE, png |-> FALSE, spk |-> TRUE, title |-> "Alpha",
     svgData |-> "a", pngData |-> "a", spkSize |-> 1, pkg |-> "p1",
     srcPackageUrl |-> "absent",
     app |-> "a1", metaShots |-> "absent", shots |-> {ShotFile("one", "png")}]

\* if '$field' not in d: exit(1); if isinstance(d[f], str) and
\* d[f].strip() == '' and f not in ('codeLink',): exit(1).  On a document
\* that is no object the test itself raises or fails.
FieldCheckFails_BugNoException(d, f) ==
    \/ d.meta # "dict"
    \/ d.fields[f] = "absent"
    \/ StripsToEmpty(d.fields[f])

FieldCheckFails(d, f) ==
    \/ d.meta # "dict"
    \/ d.fields[f] = "absent"
    \/ IsStr(d.fields[f]) /\ StripsToEmpty(d.fields[f]) /\ f \notin {"codeLink"}

\* a = d.get('author', {}); not a dict: exit(1); 'name' not in a or
\* not a['name'].strip(): exit(1) (strip of a non-string raises).
AuthorCheckFails(d) ==
    \/ d.meta # "dict"
    \/ d.author.shape # "dict"
    \/ d.author.name = "absent"
    \/ ~IsStr(d.author.name)
    \/ StripsToEmpty(d.author.name)

\* Neither icon.svg nor icon.png is a file.
IconCheckFails(d) == ~(d.svg \/ d.png)

RECURSIVE FieldErrors(_, _)
\* The loop over REQUIRED_FIELDS from index k on: one line per failed field.
FieldErrors(d, k) ==
    IF k > Len(REQUIRED_FIELDS) THEN <<>>
    ELSE (IF FieldCheckFails(d, REQUIRED_FIELDS[k])
          THEN <<[check |-> "field", what |-> REQUIRED_FIELDS[k]]>>
          ELSE <<>>)
         \o FieldErrors(d, k + 1)

validate_metadata_BugFirstOnly(d) ==
    LET all == IF d.meta = "invalid"
               THEN <<[check |-> "json", what |-> "metadata.json"]>>
               ELSE FieldErrors(d, 1)
                    \o (IF AuthorCheckFails(d)
                        THEN <<[check |-> "author", what |-> "name"]>> ELSE <<>>)
                    \o (IF IconCheckFails(d)
                        THEN <<[check |-> "icon", what |-> "icon"]>> ELSE <<>>)
    IN  SubSeq(all, 1, Min(1, Len(all)))

\* The [FAIL] lines validate_metadata prints for bundle d.
validate_metadata(d) ==
    IF d.meta = "invalid"
    THEN <<[check |-> "json", what |-> "metadata.json"]>>
    ELSE FieldErrors(d, 1)
         \o (IF AuthorCheckFails(d)
             THEN <<[check |-> "author", what |-> "name"]>> ELSE <<>>)
         \o (IF IconCheckFails(d)
             THEN <<[check |-> "icon", what |-> "icon"]>> ELSE <<>>)

\* Its return status: 1 for bad JSON, else "return $errors" (at most 14).
validate_status(d) == Len(validate_metadata(d)) % 256

\* The [WARN] line: no app.spk (printed only when the JSON parses).
validate_warnings(d) ==
    IF d.meta # "invalid" /\ ~d.spk
    THEN <<[check |-> "spk", what |-> "app.spk"]>> ELSE <<>>

\* md5sum FILE | cut -d' ' -f1, taken as one-to-one on the bytes drawn.
md5sum(data) == <<"md5", data>>

\* image_id: the hash of icon.svg, or else of icon.png, then a dot and the
\* extension of the file that was found; empty without an icon.
image_id_BugBareHash(d) ==
    IF d.svg THEN <<md5sum(d.svgData)>>
    ELSE IF d.png THEN <<md5sum(d.pngData)>> ELSE <<>>

image_id(d) ==
    IF d.svg THEN <<md5sum(d.svgData), "svg">>
    ELSE IF d.png THEN <<md5sum(d.pngData), "png">> ELSE <<>>

\* os.path.isfile(spk_path) and os.path.getsize(spk_path) > MAX_SPK_SIZE
LargeSpk(d) == d.spk /\ d.spkSize > MAX_SPK_SIZE

\* '$RELEASES_BASE/' + m.get('packageId', '')
ReleasesUrl(pkg) == <<"RELEASES_BASE", pkg>>

\* Whether the normalizer's python raises: int() of a NaN createdAt, or the
\* concatenation of the releases URL with a packageId that is no string.
NormalizeFails(d) ==
    \/ d.fields["createdAt"] = "nan"
    \/ LargeSpk(d) /\ ~IsStr(d.fields["packageId"])

\* The image extensions the normalizer and Step 4 both name.
ShotExts == {"png", "jpg", "jpeg", "gif", "webp"}

\* str.lower() on the extensions the model draws.
lower(e) == IF e = "PNG" THEN "png" ELSE IF e = "JPG" THEN "jpg" ELSE e

\* [f for f in os.listdir(ss_dir) if f.lower().endswith(('.png', ...))]:
\* every entry of the directory, hidden ones and directories included.
Discovered(d) == {f \in d.shots : lower(f.ext) \in ShotExts}

\* The screenshots of the record, each a url of a prefix and a file name:
\* the list of metadata.json when it has one (a plain file name there is
\* wrapped as it is), else 'screenshots/' + f for every discovered f.
screenshots(d) ==
    IF d.metaShots = "listed" THEN {<<"", ShotFile("one", "png")>>}
    ELSE {<<"screenshots/", f>> : f \in Discovered(d)}

json_entry_BugStamped(d, i) ==
    [dir |-> i, nameKind |-> d.fields["name"], title |-> d.title,
     appId |-> d.app, screenshots |-> screenshots(d),
     versionNumber |-> d.fields["versionNumber"],
     createdAt |-> <<"now", clock>>,
     imageId |-> image_id(d),
     packageId |-> d.pkg,
     packageUrl |-> IF LargeSpk(d) THEN ReleasesUrl(d.pkg) ELSE d.srcPackageUrl]

\* int(x) of a finite float.
int(v) == IF v = "float" THEN "int" ELSE v

\* The JSON line the normalizer prints for the bundle at index i: the
\* document of metadata.json with imageId set, a float createdAt made an
\* integer, and packageUrl overwritten for a large app.spk only.
json_entry(d, i) ==
    [dir |-> i, nameKind |-> d.fields["name"], title |-> d.title,
     appId |-> d.app, screenshots |-> screenshots(d),
     versionNumber |-> d.fields["versionNumber"],
     createdAt |-> int(d.fields["createdAt"]),
     imageId |-> image_id(d),
     packageId |-> d.pkg,
     packageUrl |-> IF LargeSpk(d) THEN ReleasesUrl(d.pkg) ELSE d.srcPackageUrl]

\* The place of lower(title) among the titles the model draws.
LowerKey(t) == IF t \in {"Alpha", "alpha"} THEN 1 ELSE IF t = "Beta" THEN 2 ELSE 0

\* a.get('name', '').lower() raises on a name that is no string.
SortFails(apps) == \E k \in 1..Len(apps) : ~IsStr(apps[k].nameKind)

RECURSIVE InsertSorted_BugUnstable(_, _)
InsertSorted_BugUnstable(sorted, x) ==
    IF sorted = <<>> THEN <<x>>
    ELSE IF LowerKey(Head(sorted).title) < LowerKey(x.title)
         THEN <<Head(sorted)>> \o InsertSorted_BugUnstable(Tail(sorted), x)
         ELSE <<x>> \o sorted

RECURSIVE InsertSorted(_, _)
\* x put after every record whose key is not greater (the sort is stable).
InsertSorted(sorted, x) ==
    IF sorted = <<>> THEN <<x>>
    ELSE IF LowerKey(Head(sorted).title) <= LowerKey(x.title)
         THEN <<Head(sorted)>> \o InsertSorted(Tail(sorted), x)
         ELSE <<x>> \o sorted

RECURSIVE SortByName(_)
\* apps.sort(key=lambda a: a.get('name', '').lower())
SortByName(apps) ==
    IF apps = <<>> THEN <<>>
    ELSE InsertSorted(SortByName(SubSeq(apps, 1, Len(apps) - 1)), apps[Len(apps)])

\* main.jsx, screenshotUrl: the address the front-end loads a screenshot
\* from, the url with a leading "screenshots/" taken off, under the appId.
screenshotUrl(appId, shot) == <<"APP_INDEX_BASE", "screenshots", appId, shot[2]>>

\* main.jsx, installUrl: the address the front-end hands to the Sandstorm
\* host, app.packageUrl || `${APP_INDEX_BASE}/packages/${app.packageId}`.
installUrl(app) ==
    IF app.packageUrl # "absent" THEN app.packageUrl
    ELSE <<"APP_INDEX_BASE", "packages", app.packageId>>

(***************************************************************************)
(* build-store.sh: the run                                                 *)
(***************************************************************************)
\* The largest number of directories under packages/ the model draws.
MaxBundles == 3
\* The largest number of required fields that are missing or odd in one bundle.
MaxBadFields == 2

With(d, f, v) == [d EXCEPT !.fields[f] = v]

\* The bundles the aggregation runs draw their directories from.
SampleBundles ==
    {GoodBundle,
     [GoodBundle EXCEPT !.title = "Beta", !.spk = FALSE, !.pkg = "p2",
                        !.srcPackageUrl = "handwritten",
                        !.app = "a2", !.metaShots = "listed"],
     [GoodBundle EXCEPT !.title = "alpha", !.svg = FALSE, !.png = TRUE,
                        !.spkSize = MAX_SPK_SIZE, !.pkg = "p3",
                        !.shots = {ShotFile("one", "png"), ShotFile("two", "jpg")}],
     [GoodBundle EXCEPT !.title = "Beta", !.svgData = "b",
                        !.png = TRUE, !.pngData = "c",
                        !.spkSize = MAX_SPK_SIZE + 1, !.pkg = "p4",
                        !.app = "a4",
                        !.shots = {ShotFile("two", "PNG"), ShotFile("notes", "txt")}],
     [With(With(GoodBundle, "versionNumber", "float"), "createdAt", "float")
         EXCEPT !.pkg = "p5", !.srcPackageUrl = "handwritten",
                !.app = "a5",
                !.shots = {[ShotFile("three", "png") EXCEPT !.dot = TRUE],
                           [ShotFile("four", "gif") EXCEPT !.isFile = FALSE]}],
     With(With(GoodBundle, "name", "absent"), "version", "blank"),
     [GoodBundle EXCEPT !.meta = "invalid"],
     With(GoodBundle, "createdAt", "nan"),
     With(GoodBundle, "name", "nonstr"),
     [GoodBundle EXCEPT !.hasMeta = FALSE],
     [GoodBundle EXCEPT !.hidden = TRUE]}

BoundedSeqs(S, n) == UNION {[1..k -> S] : k \in 0..n}

\* The odd values drawn for field f; the empty string is told from white
\* space only where the code treats the field apart.
BadKinds(f) ==
    IF f = "codeLink" THEN {"absent", "empty", "blank", "nonstr"}
    ELSE {"absent", "blank", "nonstr"}

\* Every way to make at most MaxBadFields required fields missing or odd.
FieldVariants ==
    LET RECURSIVE Vary(_, _)
        Vary(ds, n) ==
            IF n = 0 THEN ds
            ELSE Vary(ds \cup UNION {{With(d, f, v) : d \in ds, v \in BadKinds(f)} :
                                        f \in RequiredSet},
                      n - 1)
    IN  Vary({GoodBundle}, MaxBadFields)

AuthorVariants ==
    {[shape |-> "absent", name |-> "absent"], [shape |-> "nondict", name |-> "absent"]}
    \cup {[shape |-> "dict", name |-> v] : v \in {"absent", "blank", "text", "nonstr"}}

\* The bundles the validation runs draw their one directory from.
RichBundles ==
    {[d EXCEPT !.author = a, !.svg = s, !.png = g, !.spk = k] :
        d \in FieldVariants, a \in AuthorVariants,
        s \in BOOLEAN, g \in BOOLEAN, k \in BOOLEAN}
    \cup {[GoodBundle EXCEPT !.meta = m, !.svg = s, !.spk = k] :
            m \in {"invalid", "nondict"}, s \in BOOLEAN, k \in BOOLEAN}

NoFile == [state |-> "absent", apps |-> <<>>]
OldFile == [state |-> "old", apps |-> <<>>]

\* make-publish.sh is idle during a build run.
PublishIdle ==
    /\ impl = "make-publish.sh" /\ DRY_RUN = FALSE /\ ppc = "idle"
    /\ output = EmptyTree /\ STAGING = EmptyTree /\ stagingDir = FALSE
    /\ found = {} /\ queue = <<>> /\ SPLIT_COUNT = 0 /\ splits = <<>>
    /\ worktree = EmptyTree /\ walked = {} /\ OVERSIZED = 0
    /\ publishHead = EmptyTree /\ remote = EmptyTree /\ pushes = 0
    /\ mainTree = "clean" /\ mainPushes = 0
    /\ branch = "main" /\ pexit = -1

BuildStart ==
    /\ bpc = "setup" /\ scan = 1
    /\ TOTAL = 0 /\ VALID = 0 /\ ERRORS = 0
    /\ report = <<>> /\ warnings = <<>> /\ APP_JSON_FILE = <<>>
    /\ bexit = -1
    /\ PublishIdle /\ WorkerIdle

\* A run of build-store.sh in any mode over a few directories.  What a mode
\* never reads is drawn once: dist/ matters to --aggregate only (a full
\* build makes it, a dry run ends before it), the tarball to the modes that
\* reach Step 6; stale submodules are drawn for the dry run.
Init ==
    /\ mode \in {"full", "aggregate", "dry-run"}
    /\ packagesDir \in {"absent", "present"}
    /\ bundles \in (IF packagesDir = "absent" THEN {<<>>}
                    ELSE BoundedSeqs(SampleBundles, MaxBundles))
    /\ submodules \in (IF packagesDir = "absent" \/ mode # "dry-run" THEN {"current"}
                       ELSE {"current", "stale"})
    /\ srcApps \in {NoFile, OldFile}
    /\ outIndex = srcApps
    /\ outDir = (IF srcApps = NoFile THEN "absent" ELSE "old")
    /\ outPackages = (IF outDir = "old" THEN {"p0"} ELSE {})
    /\ outImages = {} /\ outShots = {} /\ outUpdate = [state |-> "absent"]
    /\ tarballSrc \in (IF mode = "dry-run" THEN {FALSE} ELSE BOOLEAN)
    /\ clock = 1 /\ run = 1 /\ first = NoRun
    /\ distDir \in (IF mode = "aggregate" THEN BOOLEAN ELSE {FALSE})
    /\ BuildStart

\* A run of build-store.sh --dry-run over one directory of any shape.
ValidateInit ==
    /\ mode = "dry-run"
    /\ packagesDir = "present" /\ submodules = "current"
    /\ bundles \in {<<d>> : d \in RichBundles}
    /\ srcApps = OldFile /\ outIndex = OldFile /\ outDir = "old"
    /\ outPackages = {"p0"} /\ outImages = {} /\ outShots = {}
    /\ outUpdate = [state |-> "absent"]
    /\ tarballSrc = FALSE /\ clock = 1 /\ run = 1 /\ first = NoRun
    /\ distDir = TRUE
    /\ BuildStart

\* Step 0 and the set-up of Step 1: git submodule update --init checks out
\* the recorded commits (bundles is the content of packages/ after it), and
\* packages/ is made when it is missing.  Both run in every mode.
Setup ==
    /\ bpc = "setup"
    /\ submodules' = (IF submodules = "stale" THEN "updated" ELSE submodules)
    /\ packagesDir' = (IF packagesDir = "absent" THEN "created" ELSE packagesDir)
    /\ bpc' = "scan"
    /\ UNCHANGED <<mode, bundles, tarballSrc, clock, run, first, scan, TOTAL, VALID, ERRORS,
                   report, warnings, APP_JSON_FILE, srcApps, distDir, outIndex,
                   outDir, outPackages, outImages, outShots, outUpdate, bexit, pvars, wvars>>

CountError_BugPerMessage(n, d) == n + Len(validate_metadata(d))

\* ((ERRORS++)): one more bundle that failed, however many messages it got.
CountError(n, d) == n + 1

\* The body of the innermost loop for one directory: skip it, or count it,
\* validate it and, when valid, normalise it and append its JSON line.
ScanDir ==
    /\ bpc = "scan" /\ scan <= Len(bundles)
    /\ LET d == bundles[scan]
       IN  IF d.hidden \/ ~d.hasMeta
           THEN /\ scan' = scan + 1
                /\ UNCHANGED <<TOTAL, VALID, ERRORS, report, warnings,
                               APP_JSON_FILE, bpc, bexit>>
           ELSE /\ TOTAL' = TOTAL + 1
                /\ report' = report \o validate_metadata(d)
                /\ warnings' = warnings \o validate_warnings(d)
                /\ IF validate_status(d) = 0
                   THEN /\ VALID' = VALID + 1
                        /\ UNCHANGED ERRORS
                        /\ IF NormalizeFails(d)
                           THEN /\ bpc' = "exit" /\ bexit' = 1
                                /\ UNCHANGED <<APP_JSON_FILE, scan>>
                           ELSE /\ APP_JSON_FILE' =
                                       Append(APP_JSON_FILE, json_entry(d, scan))
                                /\ scan' = scan + 1
                                /\ UNCHANGED <<bpc, bexit>>
                   ELSE /\ ERRORS' = CountError(ERRORS, d)
                        /\ scan' = scan + 1
                        /\ UNCHANGED <<VALID, APP_JSON_FILE, bpc, bexit>>
    /\ UNCHANGED <<mode, bundles, packagesDir, submodules, tarballSrc, clock, run, first,
                   srcApps, distDir, outIndex, outDir, outPackages,
                   outImages, outShots,
                   outUpdate, pvars, wvars>>

ErrorsGate_BugNoneValid == ERRORS > 0 /\ VALID = 0

\* if [[ "$ERRORS" -gt 0 ]]
ErrorsGate == ERRORS > 0

\* After the loops: exit 1 on errors, exit 0 on --dry-run, else go on.
ScanEnd ==
    /\ bpc = "scan" /\ scan > Len(bundles)
    /\ IF ErrorsGate
       THEN bpc' = "exit" /\ bexit' = 1
       ELSE IF mode = "dry-run"
       THEN bpc' = "exit" /\ bexit' = 0
       ELSE /\ bpc' = (IF mode = "aggregate" THEN "step3" ELSE "step2")
            /\ UNCHANGED bexit
    /\ UNCHANGED <<mode, bundles, packagesDir, submodules, tarballSrc, clock, run, first,
                   scan, TOTAL, VALID, ERRORS, report, warnings,
                   APP_JSON_FILE, srcApps, distDir, outIndex, outDir, outPackages,
                   outImages, outShots,
                   outUpdate, pvars, wvars>>

\* Step 2: write src/apps.json (sorted), then npm install and vite build,
\* which make dist/ or fail.
Step2 ==
    /\ bpc = "step2"
    /\ IF SortFails(APP_JSON_FILE)
       THEN /\ bpc' = "exit" /\ bexit' = 1
            /\ UNCHANGED <<srcApps, distDir>>
       ELSE /\ srcApps' = [state |-> "written", apps |-> SortByName(APP_JSON_FILE)]
            /\ \E built \in BOOLEAN :
                 IF built
                 THEN distDir' = TRUE /\ bpc' = "step3" /\ UNCHANGED bexit
                 ELSE bpc' = "exit" /\ bexit' = 1 /\ UNCHANGED distDir
    /\ UNCHANGED <<mode, bundles, packagesDir, submodules, tarballSrc, clock, run, first,
                   scan, TOTAL, VALID, ERRORS, report, warnings,
                   APP_JSON_FILE, outIndex, outDir, outPackages,
                   outImages, outShots,
                   outUpdate, pvars, wvars>>

\* Step 3: rm -rf dist-publish, mkdir its directories, copy dist/ or fail.
Step3 ==
    /\ bpc = "step3"
    /\ outIndex' = NoFile
    /\ IF distDir
       THEN outDir' = "assembled" /\ bpc' = "step4" /\ UNCHANGED bexit
       ELSE outDir' = "skeleton" /\ bpc' = "exit" /\ bexit' = 1
    /\ UNCHANGED <<mode, bundles, packagesDir, submodules, tarballSrc, clock, run, first,
                   scan, TOTAL, VALID, ERRORS, report, warnings,
                   APP_JSON_FILE, srcApps, distDir, pvars, wvars>>
    /\ outPackages' = {} /\ outImages' = {} /\ outShots' = {}
    /\ outUpdate' = [state |-> "absent"]

\* The directories Step 4 walks: not hidden, with a metadata.json.
Walked4 == {i \in 1..Len(bundles) : ~bundles[i].hidden /\ bundles[i].hasMeta}

icon_copy_BugPngFirst(d) ==
    IF d.png THEN [name |-> <<md5sum(d.pngData), "png">>, data |-> d.pngData]
    ELSE [name |-> <<md5sum(d.svgData), "svg">>, data |-> d.svgData]

\* Step 4's own choice and hash: cp icon.svg images/<icon_hash>.svg when
\* icon.svg is a file, or else cp icon.png images/<icon_hash>.png.
icon_copy(d) ==
    IF d.svg THEN [name |-> <<md5sum(d.svgData), "svg">>, data |-> d.svgData]
    ELSE [name |-> <<md5sum(d.pngData), "png">>, data |-> d.pngData]

\* The files of images/ after the walk, each with its name and its bytes.
CopiedIcons ==
    {icon_copy(bundles[i]) : i \in {j \in Walked4 : bundles[j].svg \/ bundles[j].png}}

\* cp app.spk dist-publish/packages/<pkg_id>, unless spk_size -gt MAX_SPK_SIZE
CopiesSpk(d) == d.spk /\ ~(d.spkSize > MAX_SPK_SIZE)

CopiedSpks == {bundles[i].pkg : i \in {j \in Walked4 : CopiesSpk(bundles[j])}}

\* "$app_dir"/screenshots/*.{png,jpg,jpeg,gif,webp} with [[ -f "$shot" ]]:
\* the patterns match no hidden name and only the extensions as written.
Globbed(d) == {f \in d.shots : ~f.dot /\ f.ext \in ShotExts /\ f.isFile}

\* cp "$shot" dist-publish/screenshots/<app_id>/ for every walked bundle in
\* turn: under one appId a later bundle's file replaces an earlier one of
\* the same name.  from is the bundle whose bytes the file holds.
CopiedShots ==
    LET all == UNION {{[app |-> bundles[i].app, file |-> f, from |-> i] :
                          f \in Globbed(bundles[i])} : i \in Walked4}
    IN  {s \in all : ~\E t \in all : t.app = s.app /\ t.file = s.file /\ t.from > s.from}

\* Step 4: copy the icons, packages and screenshots of every bundle.
Step4 ==
    /\ bpc = "step4"
    /\ outDir' = "collected"
    /\ outImages' = CopiedIcons
    /\ outShots' = CopiedShots
    /\ outPackages' = CopiedSpks
    /\ bpc' = "step5"
    /\ UNCHANGED <<mode, bundles, packagesDir, submodules, tarballSrc, clock, run, first,
                   scan, TOTAL, VALID, ERRORS, report, warnings,
                   APP_JSON_FILE, srcApps, distDir, outIndex, bexit, outUpdate, pvars, wvars>>

\* Step 5: write dist-publish/apps/index.json (sorted).
Step5 ==
    /\ bpc = "step5"
    /\ IF SortFails(APP_JSON_FILE)
       THEN bpc' = "exit" /\ bexit' = 1 /\ UNCHANGED outIndex
       ELSE /\ outIndex' = [state |-> "written", apps |-> SortByName(APP_JSON_FILE)]
            /\ bpc' = "step6" /\ UNCHANGED bexit
    /\ UNCHANGED <<mode, bundles, packagesDir, submodules, tarballSrc, clock, run, first,
                   scan, TOTAL, VALID, ERRORS, report, warnings,
                   APP_JSON_FILE, srcApps, distDir, outDir, outPackages,
                   outImages, outShots,
                   outUpdate, pvars, wvars>>

\* The manifest.json Step 6 writes beside the tarball of build 0 at time t.
BuildManifest(t) ==
    [state |-> "written", build |-> 0, channel |-> "dev",
     tarball |-> "sandstorm-0.tar.xz", timestamp |-> t]

\* Steps 6 and 7: with a sandstorm-N.tar.xz in ../sandstorm, copy it to
\* update/ and write update/manifest.json; print the summary; exit 0.
Step6 ==
    /\ bpc = "step6"
    /\ outUpdate' = (IF tarballSrc THEN BuildManifest(clock) ELSE outUpdate)
    /\ bpc' = "exit" /\ bexit' = 0
    /\ UNCHANGED <<mode, bundles, packagesDir, submodules, tarballSrc, clock, run, first,
                   scan, TOTAL, VALID, ERRORS, report, warnings,
                   APP_JSON_FILE, srcApps, distDir, outIndex, outDir, outPackages,
                   outImages, outShots, pvars, wvars>>

Next ==
    \/ Setup
    \/ ScanDir
    \/ ScanEnd
    \/ Step2
    \/ Step3
    \/ Step4
    \/ Step5
    \/ Step6

Spec == Init /\ [][Next]_vars

\* The script is started again, later, in the tree the first run left:
\* same mode, same packages/, a fresh temporary file and fresh counters.
Rerun ==
    /\ bpc = "exit" /\ run = 1
    /\ first' = [file |-> APP_JSON_FILE, index |-> outIndex, exit |-> bexit]
    /\ run' = 2 /\ clock' = clock + 1
    /\ bpc' = "setup" /\ scan' = 1 /\ bexit' = -1
    /\ TOTAL' = 0 /\ VALID' = 0 /\ ERRORS' = 0
    /\ report' = <<>> /\ warnings' = <<>> /\ APP_JSON_FILE' = <<>>
    /\ UNCHANGED <<mode, bundles, packagesDir, submodules, tarballSrc, srcApps,
                   distDir, outIndex, outDir, outPackages,
                   outImages, outShots, outUpdate,
                   pvars, wvars>>

\* Two builds, one after the other, over the same packages/.
RebuildInit == Init /\ packagesDir = "present" /\ submodules = "current"

RebuildNext ==
    \/ Setup
    \/ ScanDir
    \/ ScanEnd
    \/ Step2
    \/ Step3
    \/ Step4
    \/ Step5
    \/ Step6
    \/ Rerun

RebuildSpec == RebuildInit /\ [][RebuildNext]_vars

ValidateNext ==
    \/ Setup
    \/ ScanDir
    \/ ScanEnd

ValidateSpec == ValidateInit /\ [][ValidateNext]_vars

(***************************************************************************)
(* sw.js: the service worker                                               *)
(*                                                                         *)
(* A response is its status and its body; a request its method, its mode   *)
(* and its URL.  The worker is activated with the shell precached; from    *)
(* then on fetch events arrive in any order, and the fetches and cache     *)
(* writes they start settle in any order.                                  *)
(***************************************************************************)
BASE == "/melusina-static-store/"
IndexUrl == "/melusina-static-store/index.html"
AssetUrl == "/melusina-static-store/apps/index.json"

\* The shell cache.addAll stores at install (the icons and manifest.json,
\* which no request of the model asks for, are left out).
PRECACHE_URLS == {BASE, IndexUrl}

\* The largest number of fetch events in one run.
MaxEvents == 3

\* The statuses the server answers with.
Statuses == {200, 404}

Response(st, b) == [status |-> st, body |-> b]
\* undefined: caches.match found nothing.
NoResponse == [status |-> 0, body |-> "undefined"]

Requests ==
    {[method |-> "GET", mode |-> "navigate", url |-> BASE],
     [method |-> "GET", mode |-> "cors", url |-> AssetUrl],
     [method |-> "POST", mode |-> "cors", url |-> AssetUrl]}

\* caches.match(request)
match(cache, url) == IF url \in DOMAIN cache THEN cache[url] ELSE NoResponse

\* cache.put(request, response): the entry of the URL is replaced.
put(cache, url, r) ==
    [u \in DOMAIN cache \cup {url} |-> IF u = url THEN r ELSE cache[u]]

\* Navigation branch: every response that arrives is cloned and stored.
StoresNavigation(r) == TRUE

\* Asset branch: if (response && response.status === 200)
StoresAsset(r) == r.status = 200

\* The worker has been installed and activated: the shell is in the cache.
WorkerInit ==
    /\ swCache = [u \in PRECACHE_URLS |-> Response(200, "precached")]
    /\ swPending = {} /\ swPuts = {} /\ swReplies = {} /\ swPassed = {}
    /\ swCount = 0
    /\ PublishIdle /\ BuildIdle

\* The fetch handler runs for one event.  A request that is not GET is left
\* alone; a navigation goes to the network; any other request is looked up
\* in the cache, answered from it when it is there, and fetched.
FetchEvent ==
    /\ swCount < MaxEvents
    /\ \E request \in Requests :
         LET id == swCount + 1
             cached == match(swCache, request.url)
         IN  /\ swCount' = id
             /\ IF request.method # "GET"
                THEN /\ swPassed' = swPassed \cup {id}
                     /\ UNCHANGED <<swPending, swReplies>>
                ELSE IF request.mode = "navigate"
                THEN /\ swPending' = swPending \cup
                            {[id |-> id, request |-> request, cached |-> NoResponse]}
                     /\ UNCHANGED <<swPassed, swReplies>>
                ELSE /\ swPending' = swPending \cup
                            {[id |-> id, request |-> request, cached |-> cached]}
                     /\ swReplies' =
                            (IF cached # NoResponse
                             THEN swReplies \cup {[id |-> id, from |-> "cache", response |-> cached]}
                             ELSE swReplies)
                     /\ UNCHANGED swPassed
    /\ UNCHANGED <<swCache, swPuts, pvars, bvars>>

\* fetch(request) resolves with a response of the server.
NetworkResponse ==
    /\ \E p \in swPending, st \in Statuses :
         LET response == Response(st, <<"network", swCount>>)
             stores == IF p.request.mode = "navigate" THEN StoresNavigation(response)
                       ELSE StoresAsset(response)
         IN  /\ swPending' = swPending \ {p}
             /\ swPuts' = (IF stores
                           THEN swPuts \cup {[url |-> p.request.url, response |-> response]}
                           ELSE swPuts)
             /\ swReplies' =
                    (IF p.cached = NoResponse
                     THEN swReplies \cup {[id |-> p.id, from |-> "network", response |-> response]}
                     ELSE swReplies)
    /\ UNCHANGED <<swCache, swPassed, swCount, pvars, bvars>>

\* fetch(request) rejects: the navigation falls back on the cache and then
\* on index.html, the asset on what the cache held.
NetworkFailure ==
    /\ \E p \in swPending :
         LET own == match(swCache, p.request.url)
             fallback == IF own # NoResponse THEN own ELSE match(swCache, IndexUrl)
         IN  /\ swPending' = swPending \ {p}
             /\ swReplies' =
                    (IF p.request.mode = "navigate"
                     THEN swReplies \cup {[id |-> p.id, from |-> "fallback", response |-> fallback]}
                     ELSE IF p.cached = NoResponse
                     THEN swReplies \cup {[id |-> p.id, from |-> "none", response |-> NoResponse]}
                     ELSE swReplies)
    /\ UNCHANGED <<swCache, swPuts, swPassed, swCount, pvars, bvars>>

\* caches.open(CACHE_NAME).then((cache) => cache.put(request, clone))
CachePut ==
    /\ \E q \in swPuts :
         /\ swCache' = put(swCache, q.url, q.response)
         /\ swPuts' = swPuts \ {q}
    /\ UNCHANGED <<swPending, swReplies, swPassed, swCount, pvars, bvars>>

WorkerNext ==
    \/ FetchEvent
    \/ NetworkResponse
    \/ NetworkFailure
    \/ CachePut

WorkerSpec == WorkerInit /\ [][WorkerNext]_vars

(***************************************************************************)
(* Properties of the publish run                                           *)
(***************************************************************************)
CeilDiv(a, b) == (a + b - 1) \div b

Sum(sizes) ==
    LET RECURSIVE Add(_)
        Add(k) == IF k = 0 THEN 0 ELSE sizes[k] + Add(k - 1)
    IN  Add(Len(sizes))

\* The staged tree is on disk and the split loop has run on it.
StagedTreeLive == ppc \in {"split", "deploy", "verify", "commit", "return"}

Published(tree) == \A q \in DOMAIN tree : stat_size(tree[q]) <= MAX_FILE_SIZE

\* C2: the commit and the push of the publish branch happen only after the
\* verifier has walked every file of the working tree and counted none
\* larger than MAX_FILE_SIZE; a count above zero ends the run with a non-zero
\* status, nothing committed and nothing pushed; so no tree committed or
\* pushed holds a file larger than MAX_FILE_SIZE.
C2_VerifiedBeforePublish ==
    /\ (ppc \in {"commit", "return"} \/ publishHead # OldPublish \/ pushes > 0)
         => /\ walked = DOMAIN worktree
            /\ OVERSIZED = 0
            /\ Published(worktree)
    /\ OVERSIZED > 0
         => ppc = "exit" /\ pexit # 0 /\ pushes = 0 /\ publishHead = OldPublish
    /\ Published(publishHead) /\ Published(remote)

\* C2's case: the run has split a file, verified the tree and pushed it.
C2_Witness ==
    /\ pushes > 0 /\ SPLIT_COUNT > 0
    /\ remote = worktree /\ walked = DOMAIN worktree
    /\ \E q \in DOMAIN remote : Len(q.ext) > 0 /\ q.dir = "update"

\* The files <name>.partNN of bigfile p in the tree.
PartFiles(tree, p) ==
    {q \in DOMAIN tree :
        /\ q.dir = p.dir /\ q.base = p.base /\ Len(q.ext) = Len(p.ext) + 1
        /\ q.ext[Len(q.ext)][1] = "part"
        /\ q.ext[Len(q.ext)][2] \in 0..(SuffixCount - 1)
        /\ q = PartPath(p, q.ext[Len(q.ext)][2])}

\* cat <name>.part* over the .partNN files, in numeric order.
Reassemble(tree, p) ==
    LET ms == SortPaths(PartFiles(tree, p))
    IN  Concat([k \in 1..Len(ms) |-> tree[ms[k]].data])

\* C3: for every file the splitter has split, concatenating its .partNN
\* files in numeric order gives the original bytes, whose sha256 is the
\* originalSha256 of its .parts.json.
C3_RoundTrip ==
    StagedTreeLive /\ stagingDir =>
        \A i \in 1..Len(splits) :
            LET e == splits[i]
                pj == PartsJsonPath(e.path)
            IN  /\ Reassemble(STAGING, e.path) = e.original.data
                /\ pj \in DOMAIN STAGING
                /\ STAGING[pj].doc.originalSha256 = Reassemble(STAGING, e.path)

\* C4: split writes ceil(S / C) chunks; all but the last hold exactly C
\* bytes, the last holds S - C * (parts - 1) bytes, more than 0 and at most C.
C4_ChunkCount ==
    \A i \in 1..Len(splits) :
        LET e == splits[i]
            S == e.original.size
            n == Len(e.written)
        IN  /\ n = CeilDiv(S, CHUNK_SIZE)
            /\ \A k \in 1..(n - 1) : e.written[k].size = CHUNK_SIZE
            /\ e.written[n].size = S - CHUNK_SIZE * (n - 1)
            /\ e.written[n].size > 0 /\ e.written[n].size <= CHUNK_SIZE

\* C4's case: the 230 MiB file is split into chunks of 90, 90 and 50 MiB.
C4_Witness ==
    \E i \in 1..Len(splits) :
        /\ splits[i].original.size = 230
        /\ [k \in 1..Len(splits[i].written) |-> splits[i].written[k].size]
             = <<90, 90, 50>>

\* C5: the parts array of <name>.parts.json has one entry per chunk of that
\* split and none for another file, in concatenation order, and the sizes
\* add up to originalSize.
C5_PartsList ==
    StagedTreeLive /\ stagingDir =>
        \A i \in 1..Len(splits) :
            LET e == splits[i]
                d == STAGING[PartsJsonPath(e.path)].doc
            IN  /\ Len(d.parts) = Len(e.written)
                /\ \A k \in 1..Len(d.parts) :
                       /\ k <= Len(e.written)
                       /\ d.parts[k].file = basename(PartPath(e.path, k - 1))
                       /\ d.parts[k].size = e.written[k].size
                /\ Sum([k \in 1..Len(d.parts) |-> d.parts[k].size]) = d.originalSize

\* Whether the bytes of c are a byte range of the bytes of f.
IsSliceOf(c, f) ==
    /\ c.size > 0
    /\ \E off \in (IF Len(c.data) = 1 /\ Len(f.data) = 1
                   THEN {c.data[1].lo - f.data[1].lo} \cap (0..f.size)
                   ELSE 0..f.size) :
          Slice(f.data, off, off + c.size) = c.data

\* C6: a file larger than MAX_FILE_SIZE that the splitter has processed is
\* no longer in the staged tree (no file holds its bytes), and in the tree
\* copied to the publish branch no file lies beside a .partNN chunk of itself.
C6_OriginalGone ==
    /\ StagedTreeLive /\ stagingDir =>
         \A i \in 1..Len(splits) :
             splits[i].original.size > MAX_FILE_SIZE =>
                 \A q \in DOMAIN STAGING :
                     STAGING[q].data # splits[i].original.data
    /\ \A p \in DOMAIN worktree : \A q \in PartFiles(worktree, p) :
           ~IsSliceOf(worktree[q], worktree[p])

\* C6's case: the chunks of a split file are in the tree copied to the
\* publish branch.
C6_Witness ==
    /\ ppc = "commit"
    /\ \E i \in 1..Len(splits) :
           /\ splits[i].path = Tarball
           /\ PartPath(Tarball, 0) \in DOMAIN worktree
           /\ Tarball \notin DOMAIN worktree

\* C7: when the split loop has ended, no file of the staged tree is larger
\* than MAX_FILE_SIZE: every chunk holds at most CHUNK_SIZE < MAX_FILE_SIZE
\* bytes, which find never selects, and the verifier counts no oversized file.
C7_NoOversizedAfterSplit ==
    /\ ppc = "deploy" => Published(STAGING)
    /\ ppc \in {"verify", "commit", "return"} => Published(worktree)
    /\ OVERSIZED = 0
    /\ CHUNK_SIZE < MAX_FILE_SIZE
    /\ \A i \in 1..Len(splits) : \A k \in 1..Len(splits[i].written) :
           /\ splits[i].written[k].size <= CHUNK_SIZE
           /\ ~FindSelects(splits[i].written[k])

\* C7's case: two files were split and the verifier has passed the tree.
C7_Witness ==
    /\ ppc = "commit" /\ SPLIT_COUNT >= 2 /\ OVERSIZED = 0
    /\ walked = DOMAIN worktree

NothingOversized(tree) == \A q \in DOMAIN tree : tree[q].size <= MAX_FILE_SIZE

\* C8: on a tree with no file larger than MAX_FILE_SIZE the split step
\* changes nothing: no file is created, deleted or patched.
C8_SplitNoOp ==
    NothingOversized(output) =>
        /\ SPLIT_COUNT = 0 /\ splits = <<>> /\ queue = <<>>
        /\ (StagedTreeLive /\ stagingDir) => STAGING = output

\* C8's case: the split step has ended on a tree whose largest file has
\* exactly MAX_FILE_SIZE bytes.
C8_Witness ==
    /\ ppc = "deploy" /\ stagingDir
    /\ NothingOversized(output)
    /\ Tarball \in DOMAIN output /\ output[Tarball].size = MAX_FILE_SIZE
    /\ ManifestPath(Tarball) \in DOMAIN output


(***************************************************************************)
(* Properties of the build run                                             *)
(***************************************************************************)
\* A directory the scan treats as a bundle: not hidden, holding metadata.json.
Candidate(d) == ~d.hidden /\ d.hasMeta

SomeBundleFails ==
    \E i \in 1..Len(bundles) : Candidate(bundles[i]) /\ validate_metadata(bundles[i]) # <<>>

\* C1: whenever at least one candidate bundle fails validation, the run never
\* gets past the scan, writes neither src/apps.json nor
\* dist-publish/apps/index.json, and ends with a non-zero status, in every
\* mode and however many other bundles are valid.
C1_AggregationGating ==
    SomeBundleFails =>
        /\ bpc \in {"setup", "scan", "exit"}
        /\ srcApps.state # "written"
        /\ outIndex.state # "written"
        /\ bpc = "exit" => bexit # 0

\* A full build over two valid bundles and one invalid one has ended.
C1_Witness ==
    /\ SomeBundleFails
    /\ mode = "full" /\ bpc = "exit" /\ bexit = 1
    /\ VALID = 2 /\ ERRORS = 1
    /\ srcApps = OldFile /\ outIndex = OldFile

\* The conditions for a bundle to be valid, as the specification words them.
Present(d, f) == d.meta = "dict" /\ d.fields[f] # "absent"

PassesAsSpecified(d) ==
    /\ d.meta # "invalid"
    /\ \A f \in RequiredSet :
          /\ Present(d, f)
          /\ (IsStr(d.fields[f]) /\ f # "codeLink") => d.fields[f] = "text"
    /\ d.meta = "dict" /\ d.author.shape = "dict" /\ d.author.name = "text"
    /\ d.svg \/ d.png

\* C9: once the one bundle of a validation run is scanned, it counts as valid
\* exactly when its metadata parses, every required field is present and no
\* string field other than codeLink is empty after trimming, author is a
\* mapping with a name that is not empty after trimming, and an icon exists;
\* app.spk plays no part, its absence only adds a warning.
C9_ValidIff ==
    (Len(bundles) = 1 /\ Candidate(bundles[1]) /\ scan > 1) =>
        LET d == bundles[1]
        IN  /\ (VALID = 1 /\ ERRORS = 0) <=> PassesAsSpecified(d)
            /\ (VALID = 0 /\ ERRORS = 1) <=> ~PassesAsSpecified(d)
            /\ \A k \in 1..Len(report) : report[k].check # "spk"
            /\ (d.meta # "invalid" /\ ~d.spk) => Len(warnings) = 1
            /\ d.spk => warnings = <<>>
            /\ (validate_status([d EXCEPT !.spk = ~d.spk]) = 0) <=> (ERRORS = 0)

\* A bundle with an empty codeLink and no app.spk was scanned and found valid.
C9_Witness ==
    /\ Len(bundles) = 1 /\ scan > 1
    /\ bundles[1].fields["codeLink"] = "empty" /\ ~bundles[1].spk
    /\ VALID = 1 /\ ERRORS = 0 /\ Len(warnings) = 1
    /\ bpc = "exit" /\ bexit = 0

FailedFields(d) == {f \in RequiredSet : FieldCheckFails(d, f)}

FailedChecks(d) ==
    Cardinality(FailedFields(d))
    + (IF AuthorCheckFails(d) THEN 1 ELSE 0)
    + (IF IconCheckFails(d) THEN 1 ELSE 0)

\* C10: for a bundle whose metadata parses, the report holds one line per
\* failed check and no other: one per failed required field, each naming
\* its field, one for the author when that check fails, one for the icon
\* when that check fails; no two lines are the same.
C10_EveryErrorReported ==
    (Len(bundles) = 1 /\ Candidate(bundles[1]) /\ scan > 1
        /\ bundles[1].meta # "invalid") =>
        LET d == bundles[1]
        IN  /\ Len(report) = FailedChecks(d)
            /\ \A f \in FailedFields(d) :
                  \E k \in 1..Len(report) : report[k] = [check |-> "field", what |-> f]
            /\ AuthorCheckFails(d) <=> \E k \in 1..Len(report) : report[k].check = "author"
            /\ IconCheckFails(d) <=> \E k \in 1..Len(report) : report[k].check = "icon"
            /\ \A j, k \in 1..Len(report) : j # k => report[j] # report[k]

\* A bundle missing two required fields, its author name and its icon was
\* scanned: four lines, the first two naming different fields.
C10_Witness ==
    /\ Len(bundles) = 1 /\ scan > 1 /\ bundles[1].meta = "dict"
    /\ Cardinality({f \in RequiredSet : bundles[1].fields[f] = "absent"}) = 2
    /\ AuthorCheckFails(bundles[1]) /\ IconCheckFails(bundles[1])
    /\ Len(report) = 4
    /\ report[1].check = "field" /\ report[2].check = "field"
    /\ report[1].what # report[2].what

\* C11: with --dry-run the run creates, modifies and deletes nothing in the
\* working tree (packages/ and the submodule checkouts in it, src/apps.json,
\* dist-publish/), and it ends with status 0 exactly when no bundle failed
\* validation.
C11_DryRunWritesNothing ==
    mode = "dry-run" =>
        /\ packagesDir # "created" /\ submodules # "updated"
        /\ srcApps.state # "written" /\ outIndex.state # "written"
        /\ outDir \in {"absent", "old"}
        /\ bpc = "exit" => (bexit = 0 <=> ~SomeBundleFails)

\* The run reached the assembly (Step 3) in --aggregate mode with no dist/
\* and has ended.
EndedForMissingDist ==
    /\ mode = "aggregate" /\ ~distDir
    /\ bpc = "exit" /\ scan > Len(bundles) /\ ERRORS = 0

\* C12: when dist/ is absent at assembly time the run ends with a non-zero
\* status and dist-publish/ is as it was before the run: not removed, not
\* re-created, its apps/index.json still in place.
C12_NoPartialOutput ==
    EndedForMissingDist =>
        /\ bexit # 0
        /\ outDir \in {"absent", "old"}
        /\ outIndex.state = (IF outDir = "old" THEN "old" ELSE "absent")

\* C13: in every record the normalizer emits, packageUrl is present exactly
\* when the bundle has an app.spk larger than MAX_SPK_SIZE, and is then the
\* releases URL of its packageId; every other record has no packageUrl,
\* whatever metadata.json carries.
C13_PackageUrlDerivedOnly ==
    \A k \in 1..Len(APP_JSON_FILE) :
        LET r == APP_JSON_FILE[k]
            d == bundles[r.dir]
        IN  r.packageUrl = (IF d.spk /\ d.spkSize > MAX_SPK_SIZE
                            THEN <<"RELEASES_BASE", d.pkg>> ELSE "absent")

\* A build that ran to its end and exited 0.
BuildSucceeded == mode # "dry-run" /\ bpc = "exit" /\ bexit = 0

\* Where the app.spk of bundle d is served from: the site's packages/
\* directory up to the threshold, the external release above it.
PlaceOfArtifact(d) ==
    IF d.spkSize <= MAX_SPK_SIZE THEN <<"APP_INDEX_BASE", "packages", d.pkg>>
    ELSE <<"RELEASES_BASE", d.pkg>>

\* C14: after a successful build, for every bundle with an app.spk,
\* packages/<packageId> exists in the output exactly when the size is at most
\* the threshold, the record has a packageUrl exactly when it is greater, and
\* the address the front-end resolves is where the artifact was put.
C14_LocalStoreOrRedirect ==
    BuildSucceeded =>
        \A k \in 1..Len(outIndex.apps) :
            LET r == outIndex.apps[k]
                d == bundles[r.dir]
            IN  d.spk =>
                  /\ d.pkg \in outPackages <=> d.spkSize <= MAX_SPK_SIZE
                  /\ r.packageUrl # "absent" <=> d.spkSize > MAX_SPK_SIZE
                  /\ installUrl(r) = PlaceOfArtifact(d)

\* The bytes and the file name extension of the icon the scan picks for d.
IconBytes(d) == IF d.svg THEN d.svgData ELSE d.pngData

IconExt(d) == IF d.svg THEN "svg" ELSE "png"

\* C15 as stated: imageId is a function of the icon's bytes alone, so two
\* records have the same imageId exactly when their icons have the same bytes,
\* whatever the directory and whatever the icon's file name.
C15_BytesAlone ==
    \A j, k \in 1..Len(APP_JSON_FILE) :
        LET rj == APP_JSON_FILE[j]
            rk == APP_JSON_FILE[k]
        IN  rj.imageId = rk.imageId
                <=> IconBytes(bundles[rj.dir]) = IconBytes(bundles[rk.dir])

\* C15, amended: imageId is the hash of the icon's bytes followed by the
\* extension of the icon file.  The hash part is a function of the bytes
\* alone (equal bytes give equal hashes in any directory and under either
\* file name, different bytes give different hashes), and two imageIds are
\* equal exactly when both the bytes and the extension are.
C15_BytesAndExtension ==
    \A j, k \in 1..Len(APP_JSON_FILE) :
        LET rj == APP_JSON_FILE[j]
            rk == APP_JSON_FILE[k]
            dj == bundles[rj.dir]
            dk == bundles[rk.dir]
        IN  /\ rj.imageId[1] = rk.imageId[1] <=> IconBytes(dj) = IconBytes(dk)
            /\ rj.imageId = rk.imageId
                   <=> (IconBytes(dj) = IconBytes(dk) /\ IconExt(dj) = IconExt(dk))

\* Three directories scanned: the same bytes as icon.svg and as icon.png, and
\* an icon.svg of other bytes.
C15_Witness ==
    /\ Len(APP_JSON_FILE) = 3
    /\ \E j, k, l \in 1..3 :
          LET dj == bundles[APP_JSON_FILE[j].dir]
              dk == bundles[APP_JSON_FILE[k].dir]
              dl == bundles[APP_JSON_FILE[l].dir]
          IN  /\ IconBytes(dj) = IconBytes(dk) /\ IconExt(dj) # IconExt(dk)
              /\ IconBytes(dl) # IconBytes(dj) /\ IconExt(dl) = IconExt(dj)

C17_NoErrorConditions ==
    /\ bpc = "exit" => scan > Len(bundles)
    /\ \A i \in 1..(scan - 1) :
          (Candidate(bundles[i]) /\ validate_status(bundles[i]) = 0)
              => \E k \in 1..Len(APP_JSON_FILE) : APP_JSON_FILE[k].dir = i
    /\ (bpc = "exit" /\ outDir = "collected") => outIndex.state = "written"
    /\ (bpc = "exit" /\ mode = "full" /\ ERRORS = 0) => srcApps.state = "written"

\* The files of the tree to publish that need more than 10^SUFFIX_LENGTH chunks.
NeedsTooManyChunks ==
    {p \in DOMAIN output : CeilDiv(stat_size(output[p]), CHUNK_SIZE) > SuffixCount}

\* C18: with a file that needs more chunks than there are suffixes, the run
\* never gets past the split step and ends there with a non-zero status; the
\* original stays whole in the staged tree, no .parts.json is written for it
\* and no manifest.json beside it is patched; nothing is committed or pushed.
C18_SuffixOverflowSurfaced ==
    \A p \in NeedsTooManyChunks :
        /\ ppc \in {"main", "stage", "split", "exit"}
        /\ ppc = "exit" => pexit # 0
        /\ publishHead = OldPublish /\ remote = OldPublish /\ pushes = 0
        /\ STAGING # EmptyTree => (p \in DOMAIN STAGING /\ STAGING[p] = output[p])
        /\ \A q \in {PartsJsonPath(p), ManifestPath(p)} :
              q \in DOMAIN STAGING => (q \in DOMAIN output /\ STAGING[q] = output[q])

\* split has written every chunk it had a name for and has failed.
C18_Witness ==
    /\ Tarball \in NeedsTooManyChunks
    /\ ppc = "exit" /\ pexit = 1 /\ pushes = 0
    /\ PartPath(Tarball, SuffixCount - 1) \in DOMAIN STAGING
    /\ PartPath(Tarball, SuffixCount) \notin DOMAIN STAGING
    /\ ManifestPath(Tarball) \in DOMAIN STAGING
    /\ PartsJsonPath(Tarball) \notin DOMAIN STAGING

\* The manifest.json files of the tree to publish.
InputManifests == {mf \in DOMAIN output : mf.base = "manifest.json" /\ mf.ext = <<>>}

\* The files split so far whose name matches sandstorm-*.tar.xz and that lie
\* beside manifest.json mf.
TarballsSplitBeside(mf) ==
    {splits[i].path : i \in {j \in 1..Len(splits) :
        IsSandstormTarball(splits[j].path) /\ ManifestPath(splits[j].path) = mf}}

\* C19: while the staged tree stands, a manifest.json differs from the one
\* that was staged exactly when a file named sandstorm-*.tar.xz of its
\* directory has been split; it then has split = true, partsManifest = the
\* name of the .parts.json file and parts = the parts of that file, and every
\* other field as before.  Splitting any other file changes no manifest.json.
C19_ManifestPatch ==
    (ppc \in {"split", "deploy"} \/ (ppc = "exit" /\ STAGING # EmptyTree)) =>
        \A mf \in InputManifests :
            /\ mf \in DOMAIN STAGING
            /\ STAGING[mf] # output[mf] <=> TarballsSplitBeside(mf) # {}
            /\ \A p \in TarballsSplitBeside(mf) :
                  STAGING[mf].doc =
                      [output[mf].doc EXCEPT
                          !.split = TRUE,
                          !.partsManifest = basename(PartsJsonPath(p)),
                          !.parts = STAGING[PartsJsonPath(p)].doc.parts]

\* The directories the scan validates, and those of them that fail.
CandidateDirs == {i \in 1..Len(bundles) : Candidate(bundles[i])}

FailingDirs == {i \in CandidateDirs : validate_metadata(bundles[i]) # <<>>}

\* The loops have visited every directory.
ScanEnded == bpc \notin {"setup", "scan"} /\ scan > Len(bundles)

\* What C20 says of the counters when the scan has ended.
CountersAtScanEnd ==
    /\ TOTAL = Cardinality(CandidateDirs)
    /\ TOTAL = VALID + ERRORS
    /\ ERRORS = Cardinality(FailingDirs)
    /\ Len(APP_JSON_FILE) = VALID

\* C20 as stated: every candidate is validated whatever failed before, the
\* counters add up when the scan ends, and the run fails exactly when
\* ERRORS > 0.
C20_FailsIffErrors ==
    /\ bpc = "exit" => scan > Len(bundles)
    /\ ScanEnded => CountersAtScanEnd
    /\ bpc = "exit" => (bexit # 0 <=> ERRORS > 0)

\* C20, amended: no validation failure ends the scan (it is left early only
\* on a bundle that passed validation); when it ends the counters add up,
\* with one count per failing bundle; the run stops right there with a
\* non-zero status exactly when ERRORS > 0, a dry run then exits 0, and no
\* run with ERRORS > 0 exits 0.
C20_CountersAndGate ==
    /\ (bpc = "exit" /\ scan <= Len(bundles)) => validate_status(bundles[scan]) = 0
    /\ ScanEnded =>
          /\ CountersAtScanEnd
          /\ ERRORS > 0 => (bpc = "exit" /\ bexit # 0 /\ srcApps.state # "written"
                            /\ outDir \in {"absent", "old"})
          /\ (ERRORS = 0 /\ mode = "dry-run") => (bpc = "exit" /\ bexit = 0)

\* A first directory with several messages, then two valid ones: the scan
\* went on, counted one error and two records, and the run failed.
C20_Witness ==
    /\ ScanEnded /\ Len(bundles) = 3
    /\ FailingDirs = {1} /\ Len(report) > 1
    /\ ERRORS = 1 /\ VALID = 2 /\ Len(APP_JSON_FILE) = 2
    /\ bpc = "exit" /\ bexit = 1

\* The catalogs a run has written so far.
WrittenCatalogs ==
    {f.apps : f \in {g \in {srcApps, outIndex} : g.state = "written"}}

\* The name of a record with its letters folded to lower case, as a rank in
\* the order of strings.
FoldedName(r) == IF r.title \in {"Alpha", "alpha"} THEN 1 ELSE 2

\* C21: in every written catalog, adjacent records are in the order of their
\* names compared without regard to case, and records whose names are equal
\* without regard to case stay in the order in which the scan met their
\* bundles.
C21_CatalogOrder ==
    \A apps \in WrittenCatalogs :
        \A k \in 1..(Len(apps) - 1) :
            /\ FoldedName(apps[k]) <= FoldedName(apps[k + 1])
            /\ FoldedName(apps[k]) = FoldedName(apps[k + 1]) => apps[k].dir < apps[k + 1].dir

\* The endpoint catalog lists "alpha" before "Alpha" as the scan met them,
\* and after them a "Beta" that the scan met first.
C21_Witness ==
    /\ outIndex.state = "written" /\ Len(outIndex.apps) = 3
    /\ outIndex.apps[1].title = "alpha" /\ outIndex.apps[2].title = "Alpha"
    /\ outIndex.apps[3].title = "Beta" /\ outIndex.apps[3].dir = 1

\* C22: after every successful build, full or --aggregate, src/apps.json
\* exists and holds the records of dist-publish/apps/index.json in the same
\* order.
C22_TwoCopiesAgree ==
    BuildSucceeded =>
        /\ srcApps.state # "absent" /\ outIndex.state # "absent"
        /\ srcApps.apps = outIndex.apps

\* C23: in every record the normalizer emits, versionNumber and createdAt
\* are integers whenever metadata.json gave them as floating-point numbers.
C23_IntegerCoercion ==
    \A k \in 1..Len(APP_JSON_FILE) :
        LET r == APP_JSON_FILE[k]
            d == bundles[r.dir]
        IN  /\ d.fields["versionNumber"] = "float" => r.versionNumber = "int"
            /\ d.fields["createdAt"] = "float" => r.createdAt = "int"

\* C24: in every written catalog no two records share an appId, and the
\* files under screenshots/<appId>/ all come from one bundle.
C24_AppIdPrimaryKey ==
    /\ \A apps \in WrittenCatalogs :
          \A j, k \in 1..Len(apps) : j # k => apps[j].appId # apps[k].appId
    /\ \A s, t \in outShots : s.app = t.app => s.from = t.from

\* C25: in a run of make-publish.sh --dry-run nothing is pushed, neither
\* main nor publish: no push is counted and the remote publish branch keeps
\* its tree, on every path of the run.
C25_DryRunNeverPushes ==
    DRY_RUN => mainPushes = 0 /\ pushes = 0 /\ remote = OldPublish

\* A dry run that committed changes on main and on publish has ended well.
C25_Witness ==
    /\ DRY_RUN /\ ppc = "exit" /\ pexit = 0
    /\ mainTree = "committed" /\ publishHead # OldPublish
    /\ SPLIT_COUNT > 0

\* C26: whenever a run of make-publish.sh has ended, by completion or by
\* any failure, the branch checked out is main, where the run started, and
\* the staging directory is gone.
C26_BackOnStartingBranch ==
    (impl = "make-publish.sh" /\ ppc = "exit") => branch = "main" /\ ~stagingDir

\* C27: when the deploy step copies the staging directory into the working
\* tree of the publish branch, the directory is still there as the split
\* step left it, and after the copy the working tree holds the staged files
\* and .nojekyll, nothing else.
C27_StagedTreeIsDeployed ==
    [][ppc = "deploy" =>
          /\ stagingDir' /\ STAGING' = STAGING
          /\ DOMAIN worktree' = DOMAIN STAGING \cup {NoJekyll}
          /\ \A q \in DOMAIN STAGING : worktree'[q] = STAGING[q]]_vars

\* C28: after a successful build, for every record of the catalog the file
\* images/<imageId> is in the output and holds the bytes of the bundle's
\* icon, icon.svg when the bundle has one and icon.png otherwise; a name in
\* images/ stands for one content.
C28_IconConsistency ==
    BuildSucceeded =>
        /\ \A k \in 1..Len(outIndex.apps) :
              LET r == outIndex.apps[k]
                  d == bundles[r.dir]
              IN  \E f \in outImages : f.name = r.imageId /\ f.data = IconBytes(d)
        /\ \A f, g \in outImages : f.name = g.name => f.data = g.data

\* A build has succeeded over a bundle that has icon.svg and icon.png with
\* different bytes and over a bundle that has icon.png only.
C28_Witness ==
    /\ BuildSucceeded
    /\ \E j, k \in 1..Len(outIndex.apps) :
          LET d == bundles[outIndex.apps[j].dir]
              e == bundles[outIndex.apps[k].dir]
          IN  /\ d.svg /\ d.png /\ d.svgData # d.pngData
              /\ ~e.svg /\ e.png

\* The address at which the site serves a file of dist-publish/screenshots/.
ShotAddress(s) == <<"APP_INDEX_BASE", "screenshots", s.app, s.file>>

\* C29: after a successful build, every screenshot entry that the normalizer
\* discovered for a record names a file that Step 4 copied to
\* screenshots/<appId>/ under the same file name, which is where the
\* front-end loads it from.
C29_ScreenshotConsistency ==
    BuildSucceeded =>
        \A k \in 1..Len(outIndex.apps) :
            LET r == outIndex.apps[k]
                d == bundles[r.dir]
            IN  d.metaShots = "absent" =>
                  \A u \in r.screenshots :
                     \E s \in outShots :
                        /\ s.app = r.appId /\ s.file = u[2]
                        /\ ShotAddress(s) = screenshotUrl(r.appId, u)

\* C30: every response in the cache or on its way into it has status 200,
\* whether a navigation or an asset request brought it; an event that is not
\* GET gets no answer from the worker and starts no fetch and no cache write;
\* and an asset that was in the cache when its event arrived is answered
\* from the cache while its fetch is under way.
C30_CacheHolds200Only ==
    /\ \A u \in DOMAIN swCache : swCache[u].status = 200
    /\ \A q \in swPuts : q.response.status = 200
    /\ \A id \in swPassed :
          /\ ~\E r \in swReplies : r.id = id
          /\ ~\E p \in swPending : p.id = id
    /\ \A p \in swPending :
          (p.request.mode # "navigate" /\ p.cached # NoResponse) =>
             [id |-> p.id, from |-> "cache", response |-> p.cached] \in swReplies

====
